---- MODULE Spec2Model ----
(***************************************************************************)
(* A model of the fastfood table provisioner (src/src/services/crud.rs):   *)
(* the schema model and its rendering to DDL fragments, CrudService's      *)
(* create_table and drop_table running on pooled SQLite connections, and   *)
(* the update trigger that create_table installs.                          *)
(*                                                                         *)
(* Rust's Option<T> is a sequence of length at most one: << >> is None and *)
(* <<x>> is Some(x).                                                       *)
(***************************************************************************)
EXTENDS Naturals, Sequences, FiniteSets, TLC

(***************************************************************************)
(* Bounds of the model.                                                    *)
(***************************************************************************)
\* The longest user column list of a request.
MaxCols == 2
\* The latest value of the engine's clock (CURRENT_TIMESTAMP) in the row model.
MaxClock == 2
\* The largest row id in the row model.
MaxRowId == 3

(***************************************************************************)
(* Schema model: DataType, ColumnSchema, TableSchema and their Display.    *)
(***************************************************************************)
DataType == {"Text", "Integer", "Float", "Boolean", "TimeStamp"}

\* Option::unwrap_or
UnwrapOr(o, d) == IF o = << >> THEN d ELSE o[1]

\* impl Display for DataType
DataTypeDisplay(t) ==
    CASE t = "Text"      -> "TEXT"
      [] t = "Integer"   -> "INTEGER"
      [] t = "Float"     -> "REAL"
      [] t = "Boolean"   -> "BOOLEAN"
      [] t = "TimeStamp" -> "TIMESTAMP"

\* str::to_uppercase on the strings a DataType can display as: every letter
\* of them is mapped to its upper-case letter.
ToUppercase(s) ==
    CASE s \in {"TEXT", "Text", "text"}                -> "TEXT"
      [] s \in {"INTEGER", "Integer", "integer"}       -> "INTEGER"
      [] s \in {"REAL", "Real", "real"}                -> "REAL"
      [] s \in {"FLOAT", "Float", "float"}             -> "FLOAT"
      [] s \in {"BOOLEAN", "Boolean", "boolean"}       -> "BOOLEAN"
      [] s \in {"TIMESTAMP", "TimeStamp", "timestamp"} -> "TIMESTAMP"
      [] OTHER                                         -> s

ColumnDisplayClausesSwapped(c) ==
    c.name \o " " \o ToUppercase(DataTypeDisplay(c.data_type))
      \o (IF UnwrapOr(c.primary_key, FALSE) THEN " PRIMARY KEY" ELSE "")
      \o (IF UnwrapOr(c.auto_increment, FALSE) THEN " AUTOINCREMENT" ELSE "")
      \o (IF UnwrapOr(c.not_null, FALSE) THEN " NOT NULL" ELSE "")
      \o (IF UnwrapOr(c.unique, FALSE) THEN " UNIQUE" ELSE "")
      \o (IF c.default # << >> THEN " DEFAULT " \o c.default[1] ELSE "")

\* impl Display for ColumnSchema
ColumnDisplay(c) ==
    c.name \o " " \o ToUppercase(DataTypeDisplay(c.data_type))
      \o (IF UnwrapOr(c.primary_key, FALSE) THEN " PRIMARY KEY" ELSE "")
      \o (IF UnwrapOr(c.auto_increment, FALSE) THEN " AUTOINCREMENT" ELSE "")
      \o (IF UnwrapOr(c.unique, FALSE) THEN " UNIQUE" ELSE "")
      \o (IF UnwrapOr(c.not_null, FALSE) THEN " NOT NULL" ELSE "")
      \o (IF c.default # << >> THEN " DEFAULT " \o c.default[1] ELSE "")

\* CrudService::new: the three injected system columns.
id_col ==
    [name |-> "id", data_type |-> "Integer", primary_key |-> <<TRUE>>,
     auto_increment |-> <<TRUE>>, unique |-> <<TRUE>>, not_null |-> <<TRUE>>,
     default |-> << >>]

created_at_col ==
    [name |-> "created_at", data_type |-> "TimeStamp", primary_key |-> <<FALSE>>,
     auto_increment |-> <<FALSE>>, unique |-> <<FALSE>>, not_null |-> <<TRUE>>,
     default |-> <<"CURRENT_TIMESTAMP">>]

updated_at_col ==
    [name |-> "updated_at", data_type |-> "TimeStamp", primary_key |-> <<FALSE>>,
     auto_increment |-> <<FALSE>>, unique |-> <<FALSE>>, not_null |-> <<TRUE>>,
     default |-> <<"CURRENT_TIMESTAMP">>]

(***************************************************************************)
(* Requests.                                                               *)
(***************************************************************************)
\* Table names of the requests.
TableNames == {"people", "orders"}

\* User columns of the requests: the two columns of tests::test_create_table
\* (with absent and Some(false) flags) and a third column.  A list may name
\* a column twice, which the engine rejects.
UserColumns ==
    { [name |-> "name", data_type |-> "Text", primary_key |-> <<FALSE>>,
       auto_increment |-> <<FALSE>>, unique |-> <<FALSE>>, not_null |-> <<TRUE>>,
       default |-> << >>],
      [name |-> "age", data_type |-> "Integer", primary_key |-> << >>,
       auto_increment |-> << >>, unique |-> << >>, not_null |-> <<TRUE>>,
       default |-> <<"0">>],
      [name |-> "price", data_type |-> "Float", primary_key |-> << >>,
       auto_increment |-> <<FALSE>>, unique |-> <<TRUE>>, not_null |-> << >>,
       default |-> << >>] }

\* Every user column list of at most k columns.
ColumnLists(k) == UNION {[1..n -> UserColumns] : n \in 0..k}

(***************************************************************************)
(* DDL synthesis (CrudService::create_table and drop_table).  A statement  *)
(* is a record: what the engine parses out of the SQL text, and for the    *)
(* table statements the text itself.                                       *)
(***************************************************************************)
\* One column definition of a CREATE TABLE statement: the fragment the
\* column is formatted to, and the name the engine reads at its start.
ColumnDef(c) == [name |-> c.name, def |-> ColumnDisplay(c)]

\* query_columns: id, the user columns in request order, created_at, updated_at.
QueryColumns(columns) ==
    <<ColumnDef(id_col)>>
      \o [i \in 1..Len(columns) |-> ColumnDef(columns[i])]
      \o <<ColumnDef(created_at_col), ColumnDef(updated_at_col)>>

\* The text of query_columns: the fragments joined by ", ".
RECURSIVE JoinDefs(_)
JoinDefs(defs) ==
    IF Len(defs) = 0 THEN ""
    ELSE IF Len(defs) = 1 THEN defs[1].def
    ELSE defs[1].def \o ", " \o JoinDefs(Tail(defs))

\* create_query
CreateQuery(table_name, columns) ==
    [kind |-> "CREATE TABLE", table |-> table_name,
     columns |-> QueryColumns(columns),
     sql |-> "CREATE TABLE " \o table_name \o " ("
               \o JoinDefs(QueryColumns(columns)) \o ")"]

TriggerNameShared(table_name) == "update_updated_at"

\* The trigger's name, update_<table_name>_updated_at.
TriggerName(table_name) == "update_" \o table_name \o "_updated_at"

\* trigger_query: AFTER UPDATE ON <table> FOR EACH ROW BEGIN
\*   UPDATE <table> SET updated_at = CURRENT_TIMESTAMP WHERE id = OLD.id; END
TriggerQuery(table_name) ==
    [kind |-> "CREATE TRIGGER", name |-> TriggerName(table_name),
     table |-> table_name, event |-> "AFTER UPDATE", for_each_row |-> TRUE,
     set |-> "updated_at", value |-> "CURRENT_TIMESTAMP", key |-> "OLD.id"]

\* drop_query
DropQuery(table_name) ==
    [kind |-> "DROP TABLE", table |-> table_name,
     sql |-> "DROP TABLE " \o table_name]

SchemaColumnsUserLast(columns) ==
    <<id_col, created_at_col, updated_at_col>> \o columns

\* cols of the returned TableSchema.
SchemaColumns(columns) ==
    <<id_col>> \o columns \o <<created_at_col, updated_at_col>>

(***************************************************************************)
(* The database engine (SQLite behind diesel), as far as the statements    *)
(* above use it.  A view is the schema a connection sees: the committed    *)
(* one, or its own transaction's working copy.                             *)
(***************************************************************************)
EmptyView == [tables |-> [n \in TableNames |-> << >>], triggers |-> {}]

\* Whether two columns of a column list have the same name.
DuplicateColumnName(defs) ==
    \E i, j \in 1..Len(defs) : i < j /\ defs[i].name = defs[j].name

\* The error the engine raises when it compiles stmt against view, or "none".
EngineError(view, stmt) ==
    CASE stmt.kind = "CREATE TABLE" ->
           IF view.tables[stmt.table] # << >> THEN "AlreadyExists"
           ELSE IF DuplicateColumnName(stmt.columns) THEN "DuplicateColumn"
           ELSE "none"
      [] stmt.kind = "CREATE TRIGGER" ->
           IF view.tables[stmt.table] = << >> THEN "NoSuchTable"
           ELSE IF \E t \in view.triggers : t.name = stmt.name THEN "AlreadyExists"
           ELSE "none"
      [] stmt.kind = "DROP TABLE" ->
           IF view.tables[stmt.table] = << >> THEN "NoSuchTable" ELSE "none"

\* The view after stmt has run.  DROP TABLE also drops the table's triggers.
EngineApply(view, stmt) ==
    CASE stmt.kind = "CREATE TABLE" ->
           [view EXCEPT !.tables[stmt.table] = <<stmt.columns>>]
      [] stmt.kind = "CREATE TRIGGER" ->
           [view EXCEPT !.triggers = @ \cup {stmt}]
      [] stmt.kind = "DROP TABLE" ->
           [tables   |-> [view.tables EXCEPT ![stmt.table] = << >>],
            triggers |-> {t \in view.triggers : t.table # stmt.table}]

(***************************************************************************)
(* State.                                                                  *)
(***************************************************************************)
VARIABLES
    tables,     \* committed schema: table name -> Option of its column definitions
    triggers,   \* committed schema: the triggers
    writer,     \* the connection holding the database's write lock, or 0
    tx,         \* per connection: its open write transaction's working copy
    call,       \* per connection: the call running on it (see IdleCall)
    lastOk,     \* history: per table name, the last call on it that returned Ok
    returned,   \* history: per table name, Option of the columns of the schema
                \*   the last successful create_table returned (None once dropped)
    rcol,       \* rendering: the ColumnSchema being formatted
    rout,       \* rendering: the formatted text
    rpc,        \* rendering: "input" or "rendered"
    rows,       \* row model: the rows of the table
    clock,      \* row model: the engine's CURRENT_TIMESTAMP
    upd         \* row model: the last UPDATE statement and what it did

dbVars == <<tables, triggers, writer, tx>>
callVars == <<call, lastOk, returned>>
renderVars == <<rcol, rout, rpc>>
rowVars == <<rows, clock, upd>>
vars == <<tables, triggers, writer, tx, call, lastOk, returned,
          rcol, rout, rpc, rows, clock, upd>>

\* The connections (one per call in flight).
Connections == {1, 2}

NoTx == [active |-> FALSE, view |-> EmptyView]

NoResult == [tag |-> "None", schema |-> << >>, err |-> "none"]

\* A connection on which no call has run yet.
IdleCall ==
    [pc      |-> "idle",     \* idle, begun, created, closed, dropping, done, panicked
     op      |-> "none",     \* create_table or drop_table
     req     |-> [name |-> "", columns |-> << >>],   \* the TableSchema passed
     fault   |-> "none",     \* the statement on which the engine fails (I/O error)
     conn    |-> "none",     \* what pool.get() returned: ok or err
     pre     |-> EmptyView,  \* the committed schema when the call began
     prior   |-> "none",     \* lastOk of the table name when the call began
     closure |-> "none",     \* the transaction closure's Err, or "none"
     stmts   |-> << >>,      \* the statements executed, each with its success
     txEnd   |-> "none",     \* how the transaction ended: commit or rollback
     result  |-> NoResult]   \* what the call returned

Committed == [tables |-> tables, triggers |-> triggers]

\* The schema connection w sees.
View(w) == IF tx[w].active THEN tx[w].view ELSE Committed

\* Statement execution on connection w.  The statement is compiled against
\* the connection's view; running it needs the write lock, which the engine
\* refuses at once (SQLITE_BUSY, no busy timeout is set) while another
\* connection holds it; inject makes the engine fail the statement itself.
ConnExec(w, stmt, inject) ==
    LET e   == EngineError(View(w), stmt)
        err == IF e # "none" THEN e
               ELSE IF writer \notin {0, w} THEN "Busy"
               ELSE IF inject THEN "IoError"
               ELSE "none"
    IN  [err  |-> err,
         view |-> IF err = "none" THEN EngineApply(View(w), stmt) ELSE View(w)]

TryIgnored(err) == "continue"

\* The ? operator after execute(conn): an Err leaves the closure.
Try(err) == IF err = "none" THEN "continue" ELSE "return"

TransactionOutcomeAlwaysCommit(closure) == "commit"

\* Connection::transaction: commit when the closure returned Ok, roll back
\* when it returned Err.
TransactionOutcome(closure) == IF closure = "none" THEN "commit" ELSE "rollback"

CreateResultErrorSwallowed(closure, schema) ==
    [tag |-> "Ok",
     schema |-> <<[name |-> schema.name, columns |-> SchemaColumns(schema.columns)]>>,
     err |-> "none"]

\* The match on the transaction's result: Ok(TableSchema) or Err(DieselError(e)).
CreateResult(closure, schema) ==
    IF closure = "none"
    THEN [tag |-> "Ok",
          schema |-> <<[name |-> schema.name, columns |-> SchemaColumns(schema.columns)]>>,
          err |-> "none"]
    ELSE [tag |-> "DieselError", schema |-> << >>, err |-> closure]

DropResultErrorSwallowed(err) == [tag |-> "Ok", schema |-> << >>, err |-> "none"]

\* The match on execute's result in drop_table: Ok(()) or Err(DieselError(e)).
DropResult(err) ==
    IF err = "none"
    THEN [tag |-> "Ok", schema |-> << >>, err |-> "none"]
    ELSE [tag |-> "DieselError", schema |-> << >>, err |-> err]

\* pool.get().expect(...): a pool error panics, and the call returns nothing.
PoolGet(got) ==
    IF got THEN [conn |-> "ok", result |-> NoResult]
    ELSE [conn |-> "err", result |-> [tag |-> "Panic", schema |-> << >>, err |-> "none"]]

(***************************************************************************)
(* CrudService::create_table.                                              *)
(***************************************************************************)
\* The call begins: the schema is passed in, a connection is taken from the
\* pool and conn.transaction opens a (deferred) transaction on it.  got is
\* whether the pool supplied a connection; f is the statement on which the
\* engine will fail with an I/O error, if any.
CallCreate(w, lists, faults) ==
    /\ call[w].pc = "idle"
    /\ \E name \in TableNames, columns \in lists, f \in faults, got \in BOOLEAN :
         call' = [call EXCEPT ![w] =
                    [pc      |-> IF got THEN "begun" ELSE "panicked",
                     op      |-> "create_table",
                     req     |-> [name |-> name, columns |-> columns],
                     fault   |-> IF got THEN f ELSE "none",
                     conn    |-> PoolGet(got).conn,
                     pre     |-> Committed,
                     prior   |-> lastOk[name],
                     closure |-> "none",
                     stmts   |-> << >>,
                     txEnd   |-> "none",
                     result  |-> PoolGet(got).result]]
    /\ UNCHANGED <<dbVars, lastOk, returned, renderVars, rowVars>>

\* diesel::sql_query(create_query).execute(conn)?
ExecCreateTable(w) ==
    /\ call[w].pc = "begun"
    /\ LET stmt == CreateQuery(call[w].req.name, call[w].req.columns)
           r    == ConnExec(w, stmt, call[w].fault = "table")
           left == Try(r.err) = "return"
       IN  /\ call' = [call EXCEPT ![w] =
                         [@ EXCEPT !.pc = IF left THEN "closed" ELSE "created",
                                   !.closure = IF left THEN r.err ELSE "none",
                                   !.stmts = Append(@, [stmt |-> stmt, ok |-> r.err = "none"])]]
           /\ tx' = [tx EXCEPT ![w] = IF r.err = "none"
                                      THEN [active |-> TRUE, view |-> r.view]
                                      ELSE @]
           /\ writer' = IF r.err = "none" THEN w ELSE writer
    /\ UNCHANGED <<tables, triggers, lastOk, returned, renderVars, rowVars>>

\* diesel::sql_query(trigger_query).execute(conn)?; Ok(())
ExecCreateTrigger(w) ==
    /\ call[w].pc = "created"
    /\ LET stmt == TriggerQuery(call[w].req.name)
           r    == ConnExec(w, stmt, call[w].fault = "trigger")
           left == Try(r.err) = "return"
       IN  /\ call' = [call EXCEPT ![w] =
                         [@ EXCEPT !.pc = "closed",
                                   !.closure = IF left THEN r.err ELSE "none",
                                   !.stmts = Append(@, [stmt |-> stmt, ok |-> r.err = "none"])]]
           /\ tx' = [tx EXCEPT ![w] = IF r.err = "none"
                                      THEN [active |-> TRUE, view |-> r.view]
                                      ELSE @]
           /\ writer' = IF r.err = "none" THEN w ELSE writer
    /\ UNCHANGED <<tables, triggers, lastOk, returned, renderVars, rowVars>>

\* The closure has returned: the transaction commits or rolls back, the
\* write lock is released and create_table returns.
EndTransaction(w) ==
    /\ call[w].pc = "closed"
    /\ LET outcome == TransactionOutcome(call[w].closure)
           publish == outcome = "commit" /\ tx[w].active
           res     == CreateResult(call[w].closure, call[w].req)
           name    == call[w].req.name
       IN  /\ tables' = IF publish THEN tx[w].view.tables ELSE tables
           /\ triggers' = IF publish THEN tx[w].view.triggers ELSE triggers
           /\ tx' = [tx EXCEPT ![w] = NoTx]
           /\ writer' = IF writer = w THEN 0 ELSE writer
           /\ call' = [call EXCEPT ![w] =
                         [@ EXCEPT !.pc = "done", !.txEnd = outcome, !.result = res]]
           /\ lastOk' = IF res.tag = "Ok"
                        THEN [lastOk EXCEPT ![name] = "create_table"] ELSE lastOk
           /\ returned' = IF res.tag = "Ok"
                          THEN [returned EXCEPT ![name] = <<res.schema[1].columns>>]
                          ELSE returned
    /\ UNCHANGED <<renderVars, rowVars>>

(***************************************************************************)
(* CrudService::drop_table.                                                *)
(***************************************************************************)
CallDrop(w, faults) ==
    /\ call[w].pc = "idle"
    /\ \E name \in TableNames, f \in faults, got \in BOOLEAN :
         call' = [call EXCEPT ![w] =
                    [pc      |-> IF got THEN "dropping" ELSE "panicked",
                     op      |-> "drop_table",
                     req     |-> [name |-> name, columns |-> << >>],
                     fault   |-> IF got THEN f ELSE "none",
                     conn    |-> PoolGet(got).conn,
                     pre     |-> Committed,
                     prior   |-> lastOk[name],
                     closure |-> "none",
                     stmts   |-> << >>,
                     txEnd   |-> "none",
                     result  |-> PoolGet(got).result]]
    /\ UNCHANGED <<dbVars, lastOk, returned, renderVars, rowVars>>

\* diesel::sql_query(drop_query).execute(&mut conn) in autocommit mode, and
\* the match on its result.
ExecDrop(w) ==
    /\ call[w].pc = "dropping"
    /\ LET stmt == DropQuery(call[w].req.name)
           r    == ConnExec(w, stmt, call[w].fault = "drop")
           res  == DropResult(r.err)
           name == call[w].req.name
       IN  /\ tables' = r.view.tables
           /\ triggers' = r.view.triggers
           /\ call' = [call EXCEPT ![w] =
                         [@ EXCEPT !.pc = "done",
                                   !.stmts = Append(@, [stmt |-> stmt, ok |-> r.err = "none"]),
                                   !.result = res]]
           /\ lastOk' = IF res.tag = "Ok"
                        THEN [lastOk EXCEPT ![name] = "drop_table"] ELSE lastOk
           /\ returned' = IF res.tag = "Ok"
                          THEN [returned EXCEPT ![name] = << >>] ELSE returned
    /\ UNCHANGED <<writer, tx, renderVars, rowVars>>

\* The caller has taken what the call returned (or the panic has unwound):
\* the connection is back in the pool, the next call may begin.
Return(w) ==
    /\ call[w].pc \in {"done", "panicked"}
    /\ call' = [call EXCEPT ![w] = IdleCall]
    /\ UNCHANGED <<dbVars, lastOk, returned, renderVars, rowVars>>

(***************************************************************************)
(* Specifications of the provisioner.                                      *)
(***************************************************************************)
CreateFaults == {"none", "table", "trigger"}
DropFaults == {"none", "drop"}

InitRender == rcol = id_col /\ rout = "" /\ rpc = "input"
NoUpdate == [targets |-> {}, set_id |-> << >>, before |-> {}, at |-> 0,
             fired |-> [i \in {} |-> 0]]
InitRows == rows = {} /\ clock = 0 /\ upd = NoUpdate

Init ==
    /\ tables = EmptyView.tables
    /\ triggers = {}
    /\ writer = 0
    /\ tx = [w \in Connections |-> NoTx]
    /\ call = [w \in Connections |-> IdleCall]
    /\ lastOk = [n \in TableNames |-> "none"]
    /\ returned = [n \in TableNames |-> << >>]
    /\ InitRender
    /\ InitRows

\* Calls made one after the other, on one connection.
Next ==
    \E w \in {1} :
        \/ CallCreate(w, ColumnLists(MaxCols), CreateFaults)
        \/ ExecCreateTable(w)
        \/ ExecCreateTrigger(w)
        \/ EndTransaction(w)
        \/ CallDrop(w, DropFaults)
        \/ ExecDrop(w)
        \/ Return(w)

Spec == Init /\ [][Next]_vars

(***************************************************************************)
(* Properties of sequential calls (Spec).                                  *)
(***************************************************************************)
IsDone(w, op) == call[w].pc = "done" /\ call[w].op = op

\* The trigger of table n, by the name the specification gives it.
HasTrigger(n) == \E t \in triggers : t.name = "update_" \o n \o "_updated_at"

\* C1: atomicity of create_table.  When a statement of a create_table call
\* has failed (in particular CREATE TRIGGER after CREATE TABLE succeeded), the
\* call returns an error and no schema, and the committed database is the one
\* the call found: the call has left neither a table nor a trigger.
C1_AtomicCreateTable ==
    \A w \in Connections :
        (/\ IsDone(w, "create_table")
         /\ \E i \in 1..Len(call[w].stmts) : ~call[w].stmts[i].ok)
        => /\ call[w].result.tag = "DieselError"
           /\ call[w].result.schema = << >>
           /\ Committed = call[w].pre
           /\ call[w].pre.tables[call[w].req.name] = << >>
                => /\ tables[call[w].req.name] = << >>
                   /\ ~HasTrigger(call[w].req.name)

\* C1's case: CREATE TABLE succeeded, CREATE TRIGGER failed, the call returned.
C1_Witness ==
    \E w \in Connections :
        /\ IsDone(w, "create_table")
        /\ Len(call[w].stmts) = 2
        /\ call[w].stmts[1].ok
        /\ ~call[w].stmts[2].ok
        /\ call[w].result.tag = "DieselError"

\* The text of a column list: each column's fragment, joined by ", ".
RECURSIVE JoinColumns(_)
JoinColumns(cols) ==
    IF Len(cols) = 0 THEN ""
    ELSE ColumnDisplay(cols[1])
           \o (IF Len(cols) = 1 THEN "" ELSE ", " \o JoinColumns(Tail(cols)))

\* C2: column order.  A successful create_table with user columns c_1..c_n
\* returns the requested name with the columns [id, c_1..c_n, created_at,
\* updated_at] (n+3 of them, the user columns as given), and that is the
\* column sequence of the CREATE TABLE statement it executed and of the table.
C2_ColumnOrder ==
    \A w \in Connections :
        (IsDone(w, "create_table") /\ call[w].result.tag = "Ok")
        => LET user == call[w].req.columns
               n    == Len(user)
               out  == call[w].result.schema[1]
               ddl  == call[w].stmts[1].stmt
           IN  /\ out.name = call[w].req.name
               /\ Len(out.columns) = n + 3
               /\ out.columns[1] = id_col
               /\ \A i \in 1..n : out.columns[i + 1] = user[i]
               /\ out.columns[n + 2] = created_at_col
               /\ out.columns[n + 3] = updated_at_col
               /\ ddl.kind = "CREATE TABLE"
               /\ ddl.table = call[w].req.name
               /\ Len(ddl.columns) = n + 3
               /\ \A i \in 1..(n + 3) :
                      /\ ddl.columns[i].name = out.columns[i].name
                      /\ ddl.columns[i].def = ColumnDisplay(out.columns[i])
               /\ ddl.sql = "CREATE TABLE " \o call[w].req.name \o " ("
                              \o JoinColumns(out.columns) \o ")"
               /\ tables[call[w].req.name] = <<ddl.columns>>

\* C2's case: a successful call with two different user columns.
C2_Witness ==
    \E w \in Connections :
        /\ IsDone(w, "create_table")
        /\ call[w].result.tag = "Ok"
        /\ Len(call[w].req.columns) = 2
        /\ call[w].req.columns[1] # call[w].req.columns[2]

\* C3: when the pool supplies no connection, the call returns
\* Error::PoolError, has executed no statement and has left the database as
\* it was.
C3_PoolErrorReturned ==
    \A w \in Connections :
        call[w].conn = "err"
        => /\ call[w].result.tag = "PoolError"
           /\ call[w].stmts = << >>
           /\ Committed = call[w].pre

\* C4: a create_table for a name whose last successful call was a
\* create_table (no drop_table since) returns an execution error, and the
\* table still has the columns the first call returned and its one trigger,
\* whatever columns the second call carried.
C4_DuplicateCreateFails ==
    \A w \in Connections :
        (IsDone(w, "create_table") /\ call[w].prior = "create_table")
        => LET name == call[w].req.name
           IN  /\ call[w].result.tag = "DieselError"
               /\ call[w].result.err = "AlreadyExists"
               /\ call[w].result.schema = << >>
               /\ returned[name] # << >>
               /\ tables[name] # << >>
               /\ Len(tables[name][1]) = Len(returned[name][1])
               /\ \A i \in 1..Len(returned[name][1]) :
                      /\ tables[name][1][i].name = returned[name][1][i].name
                      /\ tables[name][1][i].def = ColumnDisplay(returned[name][1][i])
               /\ tables = call[w].pre.tables
               /\ triggers = call[w].pre.triggers
               /\ Cardinality({t \in triggers : t.table = name}) = 1
               /\ HasTrigger(name)

\* C4's case: the second call has returned, and carried other columns than
\* the first.
C4_Witness ==
    \E w \in Connections :
        /\ IsDone(w, "create_table")
        /\ call[w].prior = "create_table"
        /\ call[w].result.tag = "DieselError"
        /\ Len(returned[call[w].req.name][1]) # Len(call[w].req.columns) + 3

\* A column list the engine accepts: the names differ from each other and
\* from the injected columns' names.
ValidColumns(columns) ==
    /\ \A i \in 1..Len(columns) : columns[i].name \notin {"id", "created_at", "updated_at"}
    /\ \A i, j \in 1..Len(columns) : i # j => columns[i].name # columns[j].name

\* C5: drop_table of an existing table succeeds (the engine not failing) and
\* removes the table and its trigger, other tables staying; drop_table of an
\* absent table returns an execution error; a failed drop_table changes
\* nothing; and a create_table of a name whose last successful call was a
\* drop_table succeeds again.
C5_DropRemovesTable ==
    \A w \in Connections :
        LET name == call[w].req.name
        IN  /\ (/\ IsDone(w, "drop_table")
                /\ call[w].pre.tables[name] # << >>
                /\ call[w].fault = "none")
               => /\ call[w].result.tag = "Ok"
                  /\ tables = [call[w].pre.tables EXCEPT ![name] = << >>]
                  /\ ~HasTrigger(name)
            /\ (IsDone(w, "drop_table") /\ call[w].pre.tables[name] = << >>)
               => /\ call[w].result.tag = "DieselError"
                  /\ call[w].result.err = "NoSuchTable"
            /\ (IsDone(w, "drop_table") /\ call[w].result.tag # "Ok")
               => Committed = call[w].pre
            /\ (/\ IsDone(w, "create_table")
                /\ call[w].prior = "drop_table"
                /\ call[w].fault = "none"
                /\ ValidColumns(call[w].req.columns))
               => /\ call[w].result.tag = "Ok"
                  /\ tables[name] # << >>
                  /\ HasTrigger(name)

\* C5's case: create, drop, create of one name, the last call succeeding.
C5_Witness ==
    \E w \in Connections :
        /\ IsDone(w, "create_table")
        /\ call[w].prior = "drop_table"
        /\ call[w].result.tag = "Ok"

\* C7: statement ordering in one create_table call.  CREATE TABLE is the
\* first statement; CREATE TRIGGER is executed only as the second, after
\* CREATE TABLE succeeded, in the transaction CREATE TABLE opened on the
\* call's connection and before anything is committed; after a failed
\* CREATE TABLE nothing else is executed; the transaction commits only when
\* both have succeeded.
C7_StatementOrder ==
    \A w \in Connections :
        call[w].op = "create_table"
        => LET s == call[w].stmts
           IN  /\ Len(s) <= 2
               /\ Len(s) >= 1 => s[1].stmt.kind = "CREATE TABLE"
               /\ Len(s) = 2 => s[2].stmt.kind = "CREATE TRIGGER" /\ s[1].ok
               /\ call[w].pc = "created"
                    => /\ Len(s) = 1
                       /\ s[1].ok
                       /\ tx[w].active
                       /\ writer = w
                       /\ Committed = call[w].pre
               /\ (call[w].pc = "closed" /\ Len(s) = 2 /\ s[2].ok)
                    => tx[w].active /\ writer = w /\ Committed = call[w].pre
               /\ call[w].txEnd = "commit" => Len(s) = 2 /\ s[1].ok /\ s[2].ok
               /\ (call[w].pc = "done" /\ call[w].txEnd # "commit")
                    => \E i \in 1..Len(s) : ~s[i].ok

\* C7's case: both statements executed and the transaction committed.
C7_Witness ==
    \E w \in Connections :
        /\ IsDone(w, "create_table")
        /\ call[w].txEnd = "commit"
        /\ Len(call[w].stmts) = 2

\* C10: table and trigger go together.  In the committed database table n
\* exists exactly when trigger update_<n>_updated_at does, and every trigger
\* is that of an existing table; a successful create_table has added one
\* table and one trigger, a successful drop_table has removed both with the
\* one DROP TABLE statement.
C10_TableTriggerPairing ==
    /\ \A n \in TableNames : tables[n] # << >> <=> HasTrigger(n)
    /\ \A t \in triggers :
           /\ t.table \in TableNames
           /\ tables[t.table] # << >>
           /\ t.name = "update_" \o t.table \o "_updated_at"
    /\ Cardinality(triggers) = Cardinality({n \in TableNames : tables[n] # << >>})
    /\ \A w \in Connections :
           LET name == call[w].req.name
               old  == call[w].pre
           IN  /\ (IsDone(w, "create_table") /\ call[w].result.tag = "Ok")
                  => /\ old.tables[name] = << >>
                     /\ tables = [old.tables EXCEPT ![name] = tables[name]]
                     /\ Cardinality(triggers) = Cardinality(old.triggers) + 1
                     /\ old.triggers \subseteq triggers
               /\ (IsDone(w, "drop_table") /\ call[w].result.tag = "Ok")
                  => /\ old.tables[name] # << >>
                     /\ tables = [old.tables EXCEPT ![name] = << >>]
                     /\ Cardinality(triggers) = Cardinality(old.triggers) - 1
                     /\ triggers \subseteq old.triggers
                     /\ Len(call[w].stmts) = 1
                     /\ call[w].stmts[1].stmt.kind = "DROP TABLE"

\* C10's case: a drop_table has removed a table and its trigger while the
\* other table and trigger stay.
C10_Witness ==
    \E w \in Connections :
        /\ IsDone(w, "drop_table")
        /\ call[w].result.tag = "Ok"
        /\ Cardinality(call[w].pre.triggers) = 2
        /\ Cardinality(triggers) = 1

(***************************************************************************)
(* Rendering one column (SpecRender): every ColumnSchema over the DataType *)
(* enum, the three states of each flag and some defaults is formatted.     *)
(***************************************************************************)
OptionBool == {<< >>, <<FALSE>>, <<TRUE>>}

RenderColumns ==
    [name : {"age"}, data_type : DataType, primary_key : OptionBool,
     auto_increment : OptionBool, unique : OptionBool, not_null : OptionBool,
     default : {<< >>, <<"0">>, <<"CURRENT_TIMESTAMP">>}]

\* format!("{}", column)
Format ==
    /\ rpc = "input"
    /\ rout' = ColumnDisplay(rcol)
    /\ rpc' = "rendered"
    /\ UNCHANGED <<rcol, dbVars, callVars, rowVars>>

InitRenderAll ==
    /\ tables = EmptyView.tables
    /\ triggers = {}
    /\ writer = 0
    /\ tx = [w \in Connections |-> NoTx]
    /\ call = [w \in Connections |-> IdleCall]
    /\ lastOk = [n \in TableNames |-> "none"]
    /\ returned = [n \in TableNames |-> << >>]
    /\ rcol \in RenderColumns
    /\ rout = ""
    /\ rpc = "input"
    /\ InitRows

NextRender == Format

SpecRender == InitRenderAll /\ [][NextRender]_vars

\* The engine type names of the specification.
EngineType ==
    [t \in DataType |->
        CASE t = "Text" -> "TEXT" [] t = "Integer" -> "INTEGER" [] t = "Float" -> "REAL"
          [] t = "Boolean" -> "BOOLEAN" [] t = "TimeStamp" -> "TIMESTAMP"]

\* The clauses of a column in the specification's order, each with whether
\* it is to be emitted.
Clauses(c) ==
    << [on |-> c.primary_key = <<TRUE>>,    text |-> " PRIMARY KEY"],
       [on |-> c.auto_increment = <<TRUE>>, text |-> " AUTOINCREMENT"],
       [on |-> c.unique = <<TRUE>>,         text |-> " UNIQUE"],
       [on |-> c.not_null = <<TRUE>>,       text |-> " NOT NULL"],
       [on |-> c.default # << >>,
        text |-> IF c.default # << >> THEN " DEFAULT " \o c.default[1] ELSE ""] >>

RECURSIVE Emitted(_)
Emitted(cl) ==
    IF cl = << >> THEN ""
    ELSE (IF Head(cl).on THEN Head(cl).text ELSE "") \o Emitted(Tail(cl))

\* C8: column rendering.  A column is formatted as <name> <TYPE> followed by
\* PRIMARY KEY, AUTOINCREMENT, UNIQUE, NOT NULL, DEFAULT <default>, in that
\* order, each exactly when its flag is Some(true) or its default is present;
\* the type names are TEXT, INTEGER, REAL, BOOLEAN, TIMESTAMP, one per
\* DataType; a column without flags and default is exactly <name> <TYPE>.
C8_ColumnRendering ==
    rpc = "rendered"
    => /\ rout = rcol.name \o " " \o EngineType[rcol.data_type] \o Emitted(Clauses(rcol))
       /\ \A a, b \in DataType : a # b => DataTypeDisplay(a) # DataTypeDisplay(b)
       /\ (/\ \A f \in {rcol.primary_key, rcol.auto_increment, rcol.unique, rcol.not_null} :
                 f \in {<< >>, <<FALSE>>}
           /\ rcol.default = << >>)
          => rout = rcol.name \o " " \o EngineType[rcol.data_type]

\* C8's case: a column with every flag set and a default has been formatted.
C8_Witness ==
    /\ rpc = "rendered"
    /\ rcol.data_type = "Float"
    /\ rcol.primary_key = <<TRUE>> /\ rcol.auto_increment = <<TRUE>>
    /\ rcol.unique = <<TRUE>> /\ rcol.not_null = <<TRUE>>
    /\ rcol.default = <<"0">>
    /\ rout = "age REAL PRIMARY KEY AUTOINCREMENT UNIQUE NOT NULL DEFAULT 0"

(***************************************************************************)
(* Two concurrent create_table calls, each on its own pooled connection    *)
(* (SpecConc).                                                             *)
(***************************************************************************)
ConcColumnLists == ColumnLists(1)

NextConc ==
    \E w \in Connections :
        \/ CallCreate(w, ConcColumnLists, {"none"})
        \/ ExecCreateTable(w)
        \/ ExecCreateTrigger(w)
        \/ EndTransaction(w)

SpecConc == Init /\ [][NextConc]_vars

\* C6: of two concurrent create_table calls with the same name at most one
\* succeeds, every other one returns the engine's "already exists" error,
\* and the database ends with the winner's table and trigger; two calls with
\* different names both succeed.
C6_ConcurrentCreate ==
    \A w, v \in Connections :
        (w # v /\ IsDone(w, "create_table") /\ IsDone(v, "create_table"))
        => IF call[w].req.name = call[v].req.name
           THEN /\ ~(call[w].result.tag = "Ok" /\ call[v].result.tag = "Ok")
                /\ \A u \in {w, v} :
                       call[u].result.tag # "Ok"
                       => /\ call[u].result.tag = "DieselError"
                          /\ call[u].result.err = "AlreadyExists"
                /\ \E u \in {w, v} :
                       /\ call[u].result.tag = "Ok"
                       /\ tables[call[u].req.name] = <<QueryColumns(call[u].req.columns)>>
                /\ Cardinality({t \in triggers : t.table = call[w].req.name}) = 1
           ELSE call[w].result.tag = "Ok" /\ call[v].result.tag = "Ok"

(***************************************************************************)
(* The rows of a table create_table has made, and its update trigger       *)
(* (SpecTrigger).                                                          *)
(***************************************************************************)
RowTable == "people"

\* The database after create_table(people, [age]) has succeeded.
CreatedView ==
    EngineApply(EngineApply(EmptyView, CreateQuery(RowTable, <<CHOOSE c \in UserColumns : c.name = "age">>)),
                TriggerQuery(RowTable))

InitTrigger ==
    /\ tables = CreatedView.tables
    /\ triggers = CreatedView.triggers
    /\ writer = 0
    /\ tx = [w \in Connections |-> NoTx]
    /\ call = [w \in Connections |-> IdleCall]
    /\ lastOk = [n \in TableNames |-> IF n = RowTable THEN "create_table" ELSE "none"]
    /\ returned = [n \in TableNames |->
                     IF n = RowTable
                     THEN <<SchemaColumns(<<CHOOSE c \in UserColumns : c.name = "age">>)>>
                     ELSE << >>]
    /\ InitRender
    /\ InitRows

\* INSERT INTO people (id, age) VALUES (id, 0): created_at and updated_at
\* take their default, CURRENT_TIMESTAMP.
InsertRow ==
    /\ \E id \in 1..MaxRowId :
         /\ \A r \in rows : r.id # id
         /\ rows' = rows \cup {[id |-> id, age |-> 0, created_at |-> clock, updated_at |-> clock]}
    /\ UNCHANGED <<clock, upd, dbVars, callVars, renderVars>>

\* Time passes.
Tick ==
    /\ clock < MaxClock
    /\ clock' = clock + 1
    /\ UNCHANGED <<rows, upd, dbVars, callVars, renderVars>>

\* The rows after the triggers of the table have run for the updated rows,
\* olds their rows before the update and news after it.  Each AFTER UPDATE
\* FOR EACH ROW trigger runs its UPDATE once per updated row: it sets the
\* trigger's column to CURRENT_TIMESTAMP in the rows whose id is the
\* trigger's key.  The trigger's UPDATE fires no trigger (SQLite's
\* recursive_triggers is off unless a pragma turns it on, and none does).
RunTriggers(now, olds, news, table, set) ==
    LET trgs == {t \in triggers : t.table = table /\ t.event = "AFTER UPDATE"}
        keys == UNION {IF t.key = "OLD.id" THEN {o.id : o \in olds} ELSE {n.id : n \in news}
                       : t \in trgs}
    IN  {IF r.id \in keys THEN [r EXCEPT !.updated_at = now] ELSE r : r \in set}

\* UPDATE people SET age = v WHERE id IN S, or for one row
\* UPDATE people SET age = v, id = k WHERE id = <the row's id>.
UpdateRows ==
    /\ \E S \in SUBSET {r.id : r \in rows}, v \in {1}, set_id \in {<< >>} \cup {<<k>> : k \in 1..MaxRowId} :
         /\ S # {}
         /\ set_id # << >> => /\ Cardinality(S) = 1
                              /\ \A r \in rows : r.id \notin S => r.id # set_id[1]
         /\ LET olds  == {r \in rows : r.id \in S}
                new(r) == [r EXCEPT !.age = v, !.id = IF set_id = << >> THEN @ ELSE set_id[1]]
                news  == {new(r) : r \in olds}
                after == (rows \ olds) \cup news
            IN  /\ rows' = RunTriggers(clock, olds, news, RowTable, after)
                /\ upd' = [targets |-> S, set_id |-> set_id, before |-> rows, at |-> clock,
                           fired |-> [i \in S |->
                                        Cardinality({t \in triggers : t.table = RowTable
                                                                    /\ t.event = "AFTER UPDATE"})]]
    /\ UNCHANGED <<clock, dbVars, callVars, renderVars>>

NextTrigger == InsertRow \/ Tick \/ UpdateRows

SpecTrigger == InitTrigger /\ [][NextTrigger]_vars

\* The id an updated row has after the last UPDATE.
IdAfter(old) == IF upd.set_id = << >> THEN old.id ELSE upd.set_id[1]

\* C9: after every UPDATE, for every row it updated the trigger has fired
\* exactly once and the row's updated_at is the current timestamp, and every
\* other row is as it was.
C9_UpdateTrigger ==
    upd.targets # {}
    => \A old \in upd.before :
          IF old.id \in upd.targets
          THEN /\ upd.fired[old.id] = 1
               /\ \E r \in rows : r.id = IdAfter(old) /\ r.updated_at = upd.at
          ELSE old \in rows

\* What the trigger does guarantee: the same for the UPDATEs that leave the
\* id of the row as it is.
UpdateTriggerWhenIdKept ==
    (upd.targets # {} /\ (upd.set_id = << >> \/ upd.set_id[1] \in upd.targets))
    => \A old \in upd.before :
          IF old.id \in upd.targets
          THEN /\ upd.fired[old.id] = 1
               /\ \E r \in rows : r.id = old.id /\ r.updated_at = upd.at
          ELSE old \in rows

====
